---- MODULE Spec2Model ----
(***************************************************************************)
(* Model of ccgadget's `setup-hook` command (server/cli/src/main.rs): the  *)
(* reconciliation of the five ccgadget hook bindings against a Claude      *)
(* settings file.  A run loads the file, processes the bindings in order   *)
(* (possibly blocking on the console for an answer) and writes the file.   *)
(*                                                                         *)
(* Strings the code inspects (commands, matchers, types, console lines)    *)
(* are sequences of one-character strings, so that `contains`, `trim` and  *)
(* `to_lowercase` are computed and not assumed.                            *)
(***************************************************************************)
EXTENDS Integers, Sequences, FiniteSets, TLC

VARIABLES
    file,          \* the settings file on disk
    settings,      \* the in-memory serde_json::Value of the current run
    pc,            \* "idle" | "loop" | "prompt" | "done" | "failed"
    idx,           \* 1-based position in get_all_hooks_config() of the next binding
    force,         \* --force of the current run
    auto_approve,  \* --yes of the current run
    updated_hooks, \* counter of setup_claude_hooks
    skipped_hooks, \* Vec of skipped event names of setup_claude_hooks
    prompt,        \* the prompt the run is blocked in: kind and invalid lines so far
    log,           \* history: one record per binding processed in the current run
    loaded,        \* history: the file as the current run found it
    writes,        \* history: number of times the current run wrote the file
    runs,          \* number of runs started, a failed run that is started
                   \* again counted once
    prev,          \* history: how the previous run ended
    stdin,         \* the console input stream: "open" | "eof"
    input,         \* the String `input` of the prompt's loop: the line last read,
                   \* dropped when the loop is left and the next step begins
    other_wrote,   \* history: another process wrote the file during this run
    bt_pc,         \* position in `ccgadget pair`: "idle" | "scanned" | "select" |
                   \* "selected" | "poll" | "stop" | "connect" | "paired" | "none" | "err"
    scanning,      \* the adapter's scan as the program left it: "off" (not
                   \* started) | "on" (start_scan succeeded) | "stopped" (stop_scan called)
    peripherals,   \* the peripherals in range of the adapter
    devices,       \* Vec `devices` of scan_and_select_device: (name, address)
    polls,         \* iterations of the loop of pair_with_device that have run
    found_peripheral,  \* found_peripheral.is_some()
    device_identifier  \* the argument of pair_with_device

vars == <<file, settings, pc, idx, force, auto_approve, updated_hooks,
          skipped_hooks, prompt, log, loaded, writes, runs, prev, stdin, input,
          other_wrote, bt_pc, scanning, peripherals, devices, polls,
          found_peripheral, device_identifier>>

\* the state of `ccgadget pair`
btvars == <<bt_pc, scanning, peripherals, devices, polls, found_peripheral,
            device_identifier>>

\* the state of `ccgadget setup-hook`
hookvars == <<file, settings, pc, idx, force, auto_approve, updated_hooks,
              skipped_hooks, prompt, log, loaded, writes, runs, prev, stdin, input,
              other_wrote>>

---------------------------------------------------------------------------
(* Bounds of the model *)

\* longest HookGroupList an initial settings file holds for an event
MaxGroups == 2
\* number of consecutive runs of the command
MaxRuns == 2
\* number of invalid console lines a prompt is given before a valid one
MaxInvalid == 1

---------------------------------------------------------------------------
(* Strings *)

S_empty == <<>>
S_ccgadget == <<"c","c","g","a","d","g","e","t">>
S_ccgadget_trigger == S_ccgadget \o <<" ","t","r","i","g","g","e","r">>
S_command == <<"c","o","m","m","a","n","d">>
S_lint == <<"l","i","n","t",".","s","h">>
S_star_py == <<"*",".","p","y">>
S_ccgadget_status == S_ccgadget \o <<" ","s","t","a","t","u","s">>
S_ccgadget_trigger_v == S_ccgadget_trigger \o <<" ","-","v">>

\* str::contains: needle occurs in hay as a contiguous substring
Contains(hay, needle) ==
    \E i \in 0..(Len(hay) - Len(needle)) :
        SubSeq(hay, i + 1, i + Len(needle)) = needle

---------------------------------------------------------------------------
(* JSON values.  A value of a field is a record with its JSON kind `k`;    *)
(* kind "absent" is a key that is not there (Value::get gives None).       *)

JStr(s) == [k |-> "string", s |-> s]
JAbsent == [k |-> "absent", s |-> S_empty]
JNumber == [k |-> "number", s |-> S_empty]

JArr(a) == [k |-> "array", a |-> a]
JNotArr == [k |-> "string", a |-> <<>>]
JNoArr == [k |-> "absent", a |-> <<>>]

\* Option<&str>::unwrap_or
as_str_or(v, d) == IF v.k = "string" THEN v.s ELSE d

HookEntry(t, c) == [type |-> t, command |-> c]
HookGroup(m, h) == [matcher |-> m, hooks |-> h]

\* mutant: the command written is the literal "ccgadget", not hook_command
ccgadget_hook_literal(hook_command) ==
    HookGroup(JStr(S_empty), JArr(<<HookEntry(JStr(S_command), JStr(S_ccgadget))>>))

\* the group the code writes (json! literal of Replace, Append and create-new)
ccgadget_hook(hook_command) ==
    HookGroup(JStr(S_empty), JArr(<<HookEntry(JStr(S_command), JStr(hook_command))>>))

\* mutant: the group is written under the matcher "*" instead of ""
hook_config_star(hook_command) ==
    JArr(<<HookGroup(JStr(<<"*">>),
                     JArr(<<HookEntry(JStr(S_command), JStr(hook_command))>>))>>)

\* the array the code writes for Replace and create-new
hook_config(hook_command) == JArr(<<ccgadget_hook(hook_command)>>)

---------------------------------------------------------------------------
(* The bindings *)

\* mutant: the list names Notification twice and never Stop
get_all_hooks_config_repeats ==
    << <<"UserPromptSubmit", S_ccgadget_trigger>>,
       <<"PreToolUse", S_ccgadget_trigger>>,
       <<"PostToolUse", S_ccgadget_trigger>>,
       <<"Notification", S_ccgadget_trigger>>,
       <<"Notification", S_ccgadget_trigger>> >>

\* lines 699-707
get_all_hooks_config ==
    << <<"UserPromptSubmit", S_ccgadget_trigger>>,
       <<"PreToolUse", S_ccgadget_trigger>>,
       <<"PostToolUse", S_ccgadget_trigger>>,
       <<"Notification", S_ccgadget_trigger>>,
       <<"Stop", S_ccgadget_trigger>> >>

NumBindings == Len(get_all_hooks_config)
EventAt(i) == get_all_hooks_config[i][1]
CommandAt(i) == get_all_hooks_config[i][2]

HookSetupResult == {"Added", "Skipped", "AlreadyExists"}
HookAction == {"Replace", "Append", "Skip"}

---------------------------------------------------------------------------
(* HookMatcher: the classification of one event's value *)

\* a group's hooks array holds an entry whose command contains target_command
hook_group_contains_command(hook_group, target_command) ==
    /\ hook_group.hooks.k = "array"
    /\ \E i \in 1..Len(hook_group.hooks.a) :
          LET command == hook_group.hooks.a[i].command
          IN  command.k = "string" /\ Contains(command.s, target_command)

\* mutant: the command is compared by containment instead of equality
is_exact_ccgadget_hook_contains(hook_group, target_command) ==
    LET matcher == as_str_or(hook_group.matcher, S_empty)
    IN  /\ matcher = S_empty
        /\ hook_group.hooks.k = "array"
        /\ Len(hook_group.hooks.a) = 1
        /\ as_str_or(hook_group.hooks.a[1].type, S_empty) = S_command
        /\ Contains(as_str_or(hook_group.hooks.a[1].command, S_empty), target_command)

\* mutant: a group without a string matcher is no exact match
is_exact_ccgadget_hook_needs_matcher(hook_group, target_command) ==
    /\ hook_group.matcher = JStr(S_empty)
    /\ hook_group.hooks.k = "array"
    /\ Len(hook_group.hooks.a) = 1
    /\ as_str_or(hook_group.hooks.a[1].type, S_empty) = S_command
    /\ as_str_or(hook_group.hooks.a[1].command, S_empty) = target_command

\* a group is exactly {"matcher": "", "hooks": [{"type": "command", "command": target}]}
is_exact_ccgadget_hook(hook_group, target_command) ==
    LET matcher == as_str_or(hook_group.matcher, S_empty)
    IN  IF matcher # S_empty THEN FALSE
        ELSE IF hook_group.hooks.k = "array"
             THEN IF Len(hook_group.hooks.a) # 1 THEN FALSE
                  ELSE LET hook == hook_group.hooks.a[1]
                           hook_type == as_str_or(hook.type, S_empty)
                           hook_command == as_str_or(hook.command, S_empty)
                       IN  hook_type = S_command /\ hook_command = target_command
             ELSE FALSE

\* mutant: only the first group of the list is inspected
exact_hook_exists_first_only(event_hooks, target_command) ==
    /\ event_hooks.k = "array"
    /\ event_hooks.a # <<>>
    /\ is_exact_ccgadget_hook(event_hooks.a[1], target_command)

exact_hook_exists(event_hooks, target_command) ==
    /\ event_hooks.k = "array"
    /\ \E i \in 1..Len(event_hooks.a) :
          is_exact_ccgadget_hook(event_hooks.a[i], target_command)

any_ccgadget_hook_exists(event_hooks, target_command) ==
    /\ event_hooks.k = "array"
    /\ \E i \in 1..Len(event_hooks.a) :
          hook_group_contains_command(event_hooks.a[i], target_command)

\* event_hooks_value.as_array().map(|arr| !arr.is_empty()).unwrap_or(false)
has_other_hooks(event_hooks) ==
    event_hooks.k = "array" /\ event_hooks.a # <<>>

\* some group holds no entry whose command contains "ccgadget"
has_non_ccgadget_hooks(event_hooks) ==
    /\ event_hooks.k = "array"
    /\ \E i \in 1..Len(event_hooks.a) :
          ~hook_group_contains_command(event_hooks.a[i], S_ccgadget)

---------------------------------------------------------------------------
(* ConflictResolver: the action chosen for an event that has a value and   *)
(* no exact match.  "AskFix" and "AskOther" stand for the calls of         *)
(* ask_user_fix_hook_action and ask_user_hook_action.                      *)

\* mutant: --yes replaces the foreign hooks instead of appending to them
choose_action_replace_foreign(event_hooks, hook_command, f, a) ==
    IF any_ccgadget_hook_exists(event_hooks, hook_command)
    THEN IF f THEN "Replace"
         ELSE IF a THEN "Replace"
         ELSE "AskFix"
    ELSE IF has_other_hooks(event_hooks)
         THEN IF has_non_ccgadget_hooks(event_hooks)
              THEN IF a THEN "Replace" ELSE "AskOther"
              ELSE "Append"
         ELSE "Append"

\* mutant: --yes appends to a mismatched ccgadget hook instead of replacing it
choose_action_yes_appends(event_hooks, hook_command, f, a) ==
    IF any_ccgadget_hook_exists(event_hooks, hook_command)
    THEN IF f THEN "Replace"
         ELSE IF a THEN "Append"
         ELSE "AskFix"
    ELSE IF has_other_hooks(event_hooks)
         THEN IF has_non_ccgadget_hooks(event_hooks)
              THEN IF a THEN "Append" ELSE "AskOther"
              ELSE "Append"
         ELSE "Append"

\* mutant: an empty list is asked about like a list of foreign hooks
choose_action_asks_on_empty(event_hooks, hook_command, f, a) ==
    IF any_ccgadget_hook_exists(event_hooks, hook_command)
    THEN IF f THEN "Replace"
         ELSE IF a THEN "Replace"
         ELSE "AskFix"
    ELSE IF has_other_hooks(event_hooks)
         THEN IF has_non_ccgadget_hooks(event_hooks)
              THEN IF a THEN "Append" ELSE "AskOther"
              ELSE "Append"
         ELSE IF a THEN "Append" ELSE "AskOther"

choose_action(event_hooks, hook_command, f, a) ==
    IF any_ccgadget_hook_exists(event_hooks, hook_command)
    THEN IF f THEN "Replace"
         ELSE IF a THEN "Replace"
         ELSE "AskFix"
    ELSE IF has_other_hooks(event_hooks)
         THEN IF has_non_ccgadget_hooks(event_hooks)
              THEN IF a THEN "Append" ELSE "AskOther"
              ELSE "Append"
         ELSE "Append"

---------------------------------------------------------------------------
(* The mutations *)

\* serde_json::Map::insert
Insert(m, key, v) == [x \in (DOMAIN m) \cup {key} |-> IF x = key THEN v ELSE m[x]]

\* Vec::retain with the predicate of the Append arm
RECURSIVE retain_non_ccgadget(_)
retain_non_ccgadget(groups) ==
    IF groups = <<>> THEN <<>>
    ELSE LET rest == retain_non_ccgadget(Tail(groups))
         IN  IF ~hook_group_contains_command(Head(groups), S_ccgadget)
             THEN <<Head(groups)>> \o rest
             ELSE rest

\* mutant: Replace drops only the ccgadget groups and keeps the others
replace_hooks_keep_others(event_hooks, hook_command) ==
    IF event_hooks.k = "array"
    THEN JArr(Append(retain_non_ccgadget(event_hooks.a), ccgadget_hook(hook_command)))
    ELSE hook_config(hook_command)

\* mutant: Append removes the ccgadget groups whether or not a related one exists
append_hook_always_retain(event_hooks, hook_command, any_ccgadget_exists) ==
    JArr(Append(retain_non_ccgadget(event_hooks.a), ccgadget_hook(hook_command)))

\* mutant: Append never removes the stale groups
append_hook_no_retain(event_hooks, hook_command, any_ccgadget_exists) ==
    JArr(Append(event_hooks.a, ccgadget_hook(hook_command)))

\* the Replace arm: the new value of hooks[event]
replace_hooks(event_hooks, hook_command) == hook_config(hook_command)

\* the Append arm on an array: the new value of hooks[event]
append_hook(event_hooks, hook_command, any_ccgadget_exists) ==
    LET kept == IF any_ccgadget_exists
                THEN retain_non_ccgadget(event_hooks.a)
                ELSE event_hooks.a
    IN  JArr(Append(kept, ccgadget_hook(hook_command)))

\* mutant: the Skip arm does not return and falls through to Ok(Added)
apply_action_skip_falls_through(action, event_hooks, hook_command) ==
    CASE action = "Skip" ->
            [result |-> "Added", value |-> event_hooks]
      [] action = "Replace" ->
            [result |-> "Added", value |-> replace_hooks(event_hooks, hook_command)]
      [] action = "Append" ->
            IF event_hooks.k # "array"
            THEN [result |-> "Error", value |-> event_hooks]
            ELSE [result |-> "Added",
                  value |-> append_hook(event_hooks, hook_command,
                               any_ccgadget_hook_exists(event_hooks, hook_command))]

\* mutant: the Append arm overwrites a value that is not an array
apply_action_append_coerces(action, event_hooks, hook_command) ==
    CASE action = "Skip" ->
            [result |-> "Skipped", value |-> event_hooks]
      [] action = "Replace" ->
            [result |-> "Added", value |-> replace_hooks(event_hooks, hook_command)]
      [] action = "Append" ->
            IF event_hooks.k # "array"
            THEN [result |-> "Added", value |-> hook_config(hook_command)]
            ELSE [result |-> "Added",
                  value |-> append_hook(event_hooks, hook_command,
                               any_ccgadget_hook_exists(event_hooks, hook_command))]

\* mutant: the Replace arm reports Added without storing the hook
apply_action_replace_reports_only(action, event_hooks, hook_command) ==
    CASE action = "Skip" ->
            [result |-> "Skipped", value |-> event_hooks]
      [] action = "Replace" ->
            [result |-> "Added", value |-> event_hooks]
      [] action = "Append" ->
            IF event_hooks.k # "array"
            THEN [result |-> "Error", value |-> event_hooks]
            ELSE [result |-> "Added",
                  value |-> append_hook(event_hooks, hook_command,
                               any_ccgadget_hook_exists(event_hooks, hook_command))]

\* the `match action` of setup_hook_for_event on hooks[event] = event_hooks:
\* the result, and the new value of hooks[event]
apply_action(action, event_hooks, hook_command) ==
    CASE action = "Skip" ->
            [result |-> "Skipped", value |-> event_hooks]
      [] action = "Replace" ->
            [result |-> "Added", value |-> replace_hooks(event_hooks, hook_command)]
      [] action = "Append" ->
            IF event_hooks.k # "array"
            THEN [result |-> "Error", value |-> event_hooks]
            ELSE [result |-> "Added",
                  value |-> append_hook(event_hooks, hook_command,
                               any_ccgadget_hook_exists(event_hooks, hook_command))]

---------------------------------------------------------------------------
(* The settings document and the settings file *)

EmptyMap == [x \in {} |-> JNoArr]
HooksObject(m) == [k |-> "object", m |-> m]
HooksAbsent == [k |-> "absent", m |-> EmptyMap]
HooksNotObject == [k |-> "string", m |-> EmptyMap]

\* a JSON object with the `hooks` value h and the other top-level keys r
Document(h, r) == [k |-> "object", hooks |-> h, rest |-> r]
\* serde_json::json!({})
EmptyDocument == Document(HooksAbsent, {})
NullDocument == [k |-> "null", hooks |-> HooksAbsent, rest |-> {}]
ArrayDocument == [k |-> "array", hooks |-> HooksAbsent, rest |-> {}]

\* the file: missing, blank (only whitespace), garbage (no JSON), or the text of doc
File(st, doc, fmt) == [st |-> st, doc |-> doc, fmt |-> fmt]
MissingFile == File("missing", EmptyDocument, "none")
BlankFile == File("blank", EmptyDocument, "none")
GarbageFile == File("garbage", EmptyDocument, "none")

\* find_claude_settings_file: the file after path resolution
find_claude_settings_file(f) ==
    IF f.st = "missing" THEN File("json", EmptyDocument, "pretty") ELSE f

\* read_claude_settings of an existing file: the value, or a parse error
read_claude_settings(f) ==
    IF f.st = "blank" THEN [ok |-> TRUE, value |-> EmptyDocument]
    ELSE IF f.st = "json" THEN [ok |-> TRUE, value |-> f.doc]
    ELSE [ok |-> FALSE, value |-> EmptyDocument]

\* write_claude_settings: to_string_pretty, then fs::write of the whole file
write_claude_settings(value) == File("json", value, "pretty")

\* the value of hooks[event], JNoArr when the key is absent
Get(m, key) == IF key \in DOMAIN m THEN m[key] ELSE JNoArr

---------------------------------------------------------------------------
(* setup_hook_for_event *)

\* mutant: a document without hooks is replaced by a fresh one
ensure_hooks_fresh_document(s) ==
    IF s.hooks.k # "absent" THEN [status |-> "Ok", value |-> s]
    ELSE IF s.k \in {"object", "null"}
         THEN [status |-> "Ok", value |-> Document(HooksObject(EmptyMap), {})]
    ELSE [status |-> "Panic", value |-> s]

\* lines 717-720: `settings["hooks"] = json!({})` when there is no hooks key
\* (IndexMut turns null into an object and panics on any other non-object)
ensure_hooks(s) ==
    IF s.hooks.k # "absent" THEN [status |-> "Ok", value |-> s]
    ELSE IF s.k = "object"
         THEN [status |-> "Ok", value |-> [s EXCEPT !.hooks = HooksObject(EmptyMap)]]
    ELSE IF s.k = "null"
         THEN [status |-> "Ok", value |-> Document(HooksObject(EmptyMap), {})]
    ELSE [status |-> "Panic", value |-> s]

\* setup_hook_for_event up to the point where the action is known or asked:
\* status Ok (with result), Err, Panic, or Ask (blocked in a prompt)
setup_hook_for_event(s, event_name, hook_command, f, a) ==
    LET e == ensure_hooks(s)
        s1 == e.value
        hooks == s1.hooks.m
        before == Get(hooks, event_name)
        out(status, value, result, decision, action) ==
            [status |-> status, settings |-> value, result |-> result,
             decision |-> decision, action |-> action, before |-> before]
    IN  IF e.status = "Panic" THEN out("Panic", s, "Error", "Error", "None")
        ELSE IF s1.hooks.k # "object" THEN out("Err", s1, "Error", "Error", "None")
        ELSE IF event_name \in DOMAIN hooks
        THEN IF exact_hook_exists(before, hook_command)
             THEN out("Ok", s1, "AlreadyExists", "AlreadyExists", "None")
             ELSE LET action == choose_action(before, hook_command, f, a)
                  IN  IF action \in {"AskFix", "AskOther"}
                      THEN out("Ask", s1, "None", action, "None")
                      ELSE LET r == apply_action(action, before, hook_command)
                           IN  IF r.result = "Error"
                               THEN out("Err", s1, "Error", action, action)
                               ELSE out("Ok",
                                        [s1 EXCEPT !.hooks.m = Insert(hooks, event_name, r.value)],
                                        r.result, action, action)
        ELSE out("Ok",
                 [s1 EXCEPT !.hooks.m = Insert(hooks, event_name, hook_config(hook_command))],
                 "Added", "Create", "None")

\* setup_hook_for_event from the answer of the prompt on
finish_hook_for_event(s, event_name, hook_command, action) ==
    LET hooks == s.hooks.m
        before == Get(hooks, event_name)
        r == apply_action(action, before, hook_command)
    IN  [status |-> IF r.result = "Error" THEN "Err" ELSE "Ok",
         settings |-> IF r.result = "Added"
                      THEN [s EXCEPT !.hooks.m = Insert(hooks, event_name, r.value)]
                      ELSE s,
         result |-> r.result]

---------------------------------------------------------------------------
(* The console: ask_user_hook_action and ask_user_fix_hook_action *)

WhiteSpace == {" ", "\t", "\n", "\r"}

RECURSIVE trim_start(_)
trim_start(line) ==
    IF line # <<>> /\ Head(line) \in WhiteSpace THEN trim_start(Tail(line)) ELSE line

RECURSIVE trim_end(_)
trim_end(line) ==
    IF line # <<>> /\ line[Len(line)] \in WhiteSpace
    THEN trim_end(SubSeq(line, 1, Len(line) - 1))
    ELSE line

\* str::trim
trim(line) == trim_end(trim_start(line))

Upper == <<"A","E","I","K","L","N","P","R","S","C","D","X",
          "B","F","G","H","J","M","O","Q","T","U","V","W","Y","Z">>
Lower == <<"a","e","i","k","l","n","p","r","s","c","d","x",
          "b","f","g","h","j","m","o","q","t","u","v","w","y","z">>

\* str::to_lowercase
to_lowercase(line) ==
    [i \in 1..Len(line) |->
        IF \E j \in 1..Len(Upper) : Upper[j] = line[i]
        THEN Lower[CHOOSE j \in 1..Len(Upper) : Upper[j] = line[i]]
        ELSE line[i]]

\* mutant: a line that is no choice selects Skip instead of asking again
read_choice_default_skip(line) ==
    LET input_ == to_lowercase(trim(line))
    IN  CASE input_ \in {<<"r">>, <<"r","e","p","l","a","c","e">>} -> "Replace"
          [] input_ \in {<<"a">>, <<"a","p","p","e","n","d">>} -> "Append"
          [] OTHER -> "Skip"

\* the `match input.as_str()` of both prompts: the action, or "Invalid"
read_choice(line) ==
    LET input_ == to_lowercase(trim(line))
    IN  CASE input_ \in {<<"r">>, <<"r","e","p","l","a","c","e">>} -> "Replace"
          [] input_ \in {<<"a">>, <<"a","p","p","e","n","d">>} -> "Append"
          [] input_ \in {<<"s">>, <<"s","k","i","p">>} -> "Skip"
          [] OTHER -> "Invalid"

\* the lines typed at a prompt
InputLines ==
    { <<"r","\n">>, <<"A","\n">>, <<" ","s","k","i","p"," ","\n">>,
      <<"R","e","p","l","a","c","e","\n">>, <<"a","p","p","e","n","d","\n">>,
      <<"S","\n">>, <<"x","\n">>, <<"\n">>, <<"r","s","\n">> }

---------------------------------------------------------------------------
(* Initial settings files *)

TypeCommand == JStr(S_command)

\* the group the tool installs
G_exact == ccgadget_hook(S_ccgadget_trigger)
\* the tool's command under a non-empty matcher: related, not exact
G_matcher == HookGroup(JStr(S_star_py),
                 JArr(<<HookEntry(TypeCommand, JStr(S_ccgadget_trigger))>>))
\* a command that has the tool's command as a proper substring: related, not exact
G_longer == HookGroup(JStr(S_empty),
                 JArr(<<HookEntry(TypeCommand, JStr(S_ccgadget_trigger_v))>>))
\* two entries, one of them the tool's command: related, not exact
G_two == HookGroup(JStr(S_empty),
                 JArr(<<HookEntry(TypeCommand, JStr(S_lint)),
                        HookEntry(TypeCommand, JStr(S_ccgadget_trigger))>>))
\* another ccgadget command: names "ccgadget" but not the tool's command
G_status == HookGroup(JStr(S_empty),
                 JArr(<<HookEntry(TypeCommand, JStr(S_ccgadget_status))>>))
\* a third-party hook
G_lint == HookGroup(JStr(S_star_py),
                 JArr(<<HookEntry(TypeCommand, JStr(S_lint))>>))

InitGroups == {G_exact, G_matcher, G_longer, G_two, G_status, G_lint}

\* a group whose `hooks` field is not an array
G_badhooks == HookGroup(JStr(S_empty), JNotArr)
\* a group whose entry has a command that is not a string
G_badentry == HookGroup(JStr(S_empty), JArr(<<HookEntry(TypeCommand, JNumber)>>))

\* groups of invalid shape: alone, or beside one of the groups above
InitOddGroups == {G_badhooks, G_badentry}

InitOddLists ==
    {<<x>> : x \in InitOddGroups}
    \cup {<<x, g>> : x \in InitOddGroups, g \in InitGroups}
    \cup {<<g, x>> : x \in InitOddGroups, g \in InitGroups}

\* a command that is a proper substring of the tool's command
G_prefix == HookGroup(JStr(S_empty), JArr(<<HookEntry(TypeCommand, JStr(S_ccgadget))>>))
\* the tool's entry in a group without a `matcher` field
G_nomatcher == HookGroup(JAbsent,
                 JArr(<<HookEntry(TypeCommand, JStr(S_ccgadget_trigger))>>))
\* the tool's entry in a group whose `matcher` is a number
G_badmatcher == HookGroup(JNumber,
                 JArr(<<HookEntry(TypeCommand, JStr(S_ccgadget_trigger))>>))

\* further groups: alone, or beside a third-party hook
InitEdgeGroups == {G_prefix, G_nomatcher, G_badmatcher}

InitEdgeLists ==
    {<<x>> : x \in InitEdgeGroups}
    \cup {<<x, G_lint>> : x \in InitEdgeGroups}
    \cup {<<G_lint, x>> : x \in InitEdgeGroups}

InitLists ==
    UNION {[1..n -> InitGroups] : n \in 0..MaxGroups}
    \cup InitOddLists \cup InitEdgeLists

\* the values an event key holds in an initial file
InitValues == {JArr(l) : l \in InitLists} \cup {JNotArr}

\* the sets of desired events that hold a value in an initial file
InitPatterns == {{"UserPromptSubmit"}, {"PostToolUse"}, {"PreToolUse", "Stop"}}

\* a key of `hooks` that is none of the tool's events, and the other top-level keys
ForeignEvent == "SessionStart"
InitRest == {<<"model", "opus">>}

InitMaps ==
    {[e \in P \cup {ForeignEvent} |->
         IF e = ForeignEvent THEN JArr(<<G_lint>>) ELSE v] :
         P \in InitPatterns, v \in InitValues}

InitDocuments ==
    {Document(HooksObject(m), InitRest) : m \in InitMaps}
    \cup {EmptyDocument, Document(HooksAbsent, InitRest),
          Document(HooksNotObject, InitRest), NullDocument, ArrayDocument}

InitFiles ==
    {File("json", d, "compact") : d \in InitDocuments}
    \cup {MissingFile, BlankFile, GarbageFile}

---------------------------------------------------------------------------
(* History *)

NoPrompt == [kind |-> "none", invalid |-> 0, asked |-> 0]

\* no line read: String::new()
NoInput == [read |-> FALSE, s |-> S_empty]
\* the content of `input` after read_line gave Ok
Line(s) == [read |-> TRUE, s |-> s]

LogEntry(event, before, decision, action, asked, result) ==
    [event |-> event, before |-> before, decision |-> decision,
     action |-> action, asked |-> asked, result |-> result]

Results(l) == [i \in 1..Len(l) |-> l[i].result]

\* the outcome of the last run that completed, kept when the next run starts
\* (set in StartRun)
NoPrev == [status |-> "none", results |-> <<>>, no_foreign |-> FALSE]

---------------------------------------------------------------------------
(* The notions of the specification, stated on values (section 4.1) *)

\* the command the tool wants for an event
TargetOf(event) == CommandAt(CHOOSE i \in 1..NumBindings : EventAt(i) = event)

\* the HookGroup the specification says the engine creates
ExpectedGroup(target) ==
    [matcher |-> [k |-> "string", s |-> <<>>],
     hooks |-> [k |-> "array",
                a |-> <<[type |-> [k |-> "string", s |-> S_command],
                         command |-> [k |-> "string", s |-> target]]>>]]

\* a HookGroup holds an entry whose command contains target as a substring
RelatedGroup(g, target) ==
    /\ g.hooks.k = "array"
    /\ \E i \in 1..Len(g.hooks.a) :
          /\ g.hooks.a[i].command.k = "string"
          /\ Contains(g.hooks.a[i].command.s, target)

\* the matcher of a group; a group that has no string matcher is read as one
\* with the matcher ""
MatcherOf(g) == IF g.matcher.k = "string" THEN g.matcher.s ELSE <<>>

\* a group with matcher "" whose hooks array is exactly one entry with type
\* "command" and command equal to target
ExactGroup(g, target) ==
    /\ MatcherOf(g) = <<>>
    /\ g.hooks.k = "array"
    /\ Len(g.hooks.a) = 1
    /\ g.hooks.a[1].type = [k |-> "string", s |-> S_command]
    /\ g.hooks.a[1].command = [k |-> "string", s |-> target]

IsExactMatch(v, target) ==
    v.k = "array" /\ \E i \in 1..Len(v.a) : ExactGroup(v.a[i], target)

AnyRelatedMatch(v, target) ==
    v.k = "array" /\ \E i \in 1..Len(v.a) : RelatedGroup(v.a[i], target)

HasUnrelatedGroups(v, target) ==
    v.k = "array" /\ \E i \in 1..Len(v.a) : ~RelatedGroup(v.a[i], target)

\* every value the document holds for a desired event is a list of related groups
NoForeignHooks(doc) ==
    \A i \in 1..NumBindings :
        LET v == Get(doc.hooks.m, EventAt(i))
        IN  v.k = "absent"
            \/ (v.k = "array" /\ ~HasUnrelatedGroups(v, CommandAt(i)))

\* the value of hooks[event] in the document of the current run
After(event) == Get(settings.hooks.m, event)

\* the groups of list that satisfy RelatedGroup, in order
RECURSIVE RelatedOf(_, _)
RelatedOf(list, target) ==
    IF list = <<>> THEN <<>>
    ELSE IF RelatedGroup(Head(list), target)
         THEN <<Head(list)>> \o RelatedOf(Tail(list), target)
         ELSE RelatedOf(Tail(list), target)

\* the groups of list that do not satisfy RelatedGroup, in order
RECURSIVE UnrelatedOf(_, _)
UnrelatedOf(list, target) ==
    IF list = <<>> THEN <<>>
    ELSE IF ~RelatedGroup(Head(list), target)
         THEN <<Head(list)>> \o UnrelatedOf(Tail(list), target)
         ELSE UnrelatedOf(Tail(list), target)

\* the log entries of the current run
Entries == {log[i] : i \in 1..Len(log)}

---------------------------------------------------------------------------
(* The run: setup_claude_hooks *)

\* `ccgadget pair` has not been started
BluetoothIdle ==
    /\ bt_pc = "idle"
    /\ scanning = "off"
    /\ devices = <<>>
    /\ polls = 0
    /\ found_peripheral = FALSE
    /\ device_identifier = S_empty

\* `ccgadget setup-hook` has not been started
HooksIdle ==
    /\ settings = EmptyDocument
    /\ pc = "idle"
    /\ idx = 1
    /\ force = FALSE
    /\ auto_approve = FALSE
    /\ updated_hooks = 0
    /\ skipped_hooks = <<>>
    /\ prompt = NoPrompt
    /\ log = <<>>
    /\ loaded = file
    /\ writes = 0
    /\ runs = 0
    /\ prev = NoPrev
    /\ stdin = "open"
    /\ input = NoInput
    /\ other_wrote = FALSE

Init ==
    /\ file \in InitFiles
    /\ BluetoothIdle
    /\ peripherals = <<>>
    /\ HooksIdle

\* lines 590-599: resolve the path (creating the file), read it
StartRun(f, a) ==
    /\ \/ pc \in {"idle", "done"} /\ runs < MaxRuns
       \/ pc = "failed"
    /\ LET found == find_claude_settings_file(file)
           r == read_claude_settings(found)
       IN  /\ file' = found
           /\ loaded' = found
           /\ settings' = r.value
           /\ pc' = IF r.ok THEN "loop" ELSE "failed"
    /\ prev' = IF pc = "done"
               THEN [status |-> pc, results |-> Results(log),
                     no_foreign |-> NoForeignHooks(loaded.doc)]
               ELSE prev
    /\ force' = f
    /\ auto_approve' = a
    /\ idx' = 1
    /\ updated_hooks' = 0
    /\ skipped_hooks' = <<>>
    /\ prompt' = NoPrompt
    /\ log' = <<>>
    /\ writes' = 0
    /\ runs' = IF pc = "failed" THEN runs ELSE runs + 1
    /\ stdin' = "open"
    /\ input' = NoInput
    /\ other_wrote' = FALSE
    /\ UNCHANGED btvars

\* mutant: AlreadyExists is counted as configured too
Tally_counts_existing(event_name, result) ==
    /\ updated_hooks' = IF result \in {"Added", "AlreadyExists"}
                        THEN updated_hooks + 1
                        ELSE updated_hooks
    /\ skipped_hooks' = IF result = "Skipped"
                        THEN Append(skipped_hooks, event_name)
                        ELSE skipped_hooks

\* lines 606-616: the match on the result of setup_hook_for_event
Tally(event_name, result) ==
    /\ updated_hooks' = IF result = "Added" THEN updated_hooks + 1 ELSE updated_hooks
    /\ skipped_hooks' = IF result = "Skipped"
                        THEN Append(skipped_hooks, event_name)
                        ELSE skipped_hooks

\* lines 605-617: one iteration of the loop, up to its result or to the
\* read_line of a prompt
ProcessEvent ==
    /\ UNCHANGED <<other_wrote, btvars>>
    /\ pc = "loop"
    /\ idx <= NumBindings
    /\ LET o == setup_hook_for_event(settings, EventAt(idx), CommandAt(idx),
                                     force, auto_approve)
       IN  /\ settings' = o.settings
           /\ IF o.status = "Ok"
              THEN /\ pc' = "loop"
                   /\ idx' = idx + 1
                   /\ Tally(EventAt(idx), o.result)
                   /\ log' = Append(log, LogEntry(EventAt(idx), o.before, o.decision,
                                                  o.action, 0, o.result))
                   /\ prompt' = NoPrompt
              ELSE IF o.status = "Ask"
              THEN /\ pc' = "prompt"
                   /\ prompt' = [kind |-> o.decision, invalid |-> 0,
                                 asked |-> prompt.asked + 1]
                   /\ UNCHANGED <<idx, updated_hooks, skipped_hooks, log>>
              ELSE /\ pc' = "failed"
                   /\ log' = Append(log, LogEntry(EventAt(idx), o.before, o.decision,
                                                  o.action, 0, "Error"))
                   /\ prompt' = NoPrompt
                   /\ UNCHANGED <<idx, updated_hooks, skipped_hooks>>
    /\ input' = NoInput
    /\ UNCHANGED <<file, force, auto_approve, loaded, writes, runs, prev, stdin>>

\* the prompt reads a line that is one of the choices: the rest of the iteration
ReadAnswer(line) ==
    /\ UNCHANGED <<other_wrote, btvars>>
    /\ pc = "prompt"
    /\ stdin = "open"
    /\ read_choice(line) # "Invalid"
    /\ LET action == read_choice(line)
           before == Get(settings.hooks.m, EventAt(idx))
           o == finish_hook_for_event(settings, EventAt(idx), CommandAt(idx), action)
       IN  /\ settings' = o.settings
           /\ log' = Append(log, LogEntry(EventAt(idx), before, prompt.kind,
                                          action, prompt.asked, o.result))
           /\ IF o.status = "Ok"
              THEN /\ pc' = "loop"
                   /\ idx' = idx + 1
                   /\ Tally(EventAt(idx), o.result)
              ELSE /\ pc' = "failed"
                   /\ UNCHANGED <<idx, updated_hooks, skipped_hooks>>
    /\ prompt' = NoPrompt
    /\ input' = Line(line)
    /\ UNCHANGED <<file, force, auto_approve, loaded, writes, runs, prev, stdin>>

\* the prompt reads any other line: "Invalid choice", and it reads again
ReadInvalid(line) ==
    /\ UNCHANGED <<other_wrote, btvars>>
    /\ pc = "prompt"
    /\ read_choice(line) = "Invalid"
    /\ stdin = "open"
    /\ prompt.invalid < MaxInvalid
    /\ prompt' = [prompt EXCEPT !.invalid = @ + 1]
    /\ input' = Line(line)
    /\ UNCHANGED <<file, settings, pc, idx, force, auto_approve, updated_hooks,
                   skipped_hooks, log, loaded, writes, runs, prev, stdin>>

\* the input stream is at its end: read_line gives Ok(0) and leaves `input`
\* empty, which is no choice: "Invalid choice", and the loop reads again
ReadEof ==
    /\ UNCHANGED <<other_wrote, btvars>>
    /\ pc = "prompt"
    /\ read_choice(S_empty) = "Invalid"
    /\ stdin' = "eof"
    /\ input' = Line(S_empty)
    /\ UNCHANGED <<file, settings, pc, idx, force, auto_approve, updated_hooks,
                   skipped_hooks, prompt, log, loaded, writes, runs, prev>>

\* read_line gives Err: the `?` of the prompt and of line 606 end the run
ReadError ==
    /\ UNCHANGED <<other_wrote, btvars>>
    /\ pc = "prompt"
    /\ stdin = "open"
    /\ pc' = "failed"
    /\ log' = Append(log, LogEntry(EventAt(idx), Get(settings.hooks.m, EventAt(idx)),
                                   prompt.kind, "None", prompt.asked, "Error"))
    /\ prompt' = NoPrompt
    /\ input' = NoInput
    /\ UNCHANGED <<file, settings, idx, force, auto_approve, updated_hooks,
                   skipped_hooks, loaded, writes, runs, prev, stdin>>

\* mutant: the file is written only when some hook was configured
FinishRun_only_if_updated ==
    /\ UNCHANGED <<other_wrote, btvars>>
    /\ pc = "loop"
    /\ idx > NumBindings
    /\ file' = IF updated_hooks > 0 THEN write_claude_settings(settings) ELSE file
    /\ writes' = IF updated_hooks > 0 THEN writes + 1 ELSE writes
    /\ pc' = "done"
    /\ input' = NoInput
    /\ UNCHANGED <<settings, idx, force, auto_approve, updated_hooks,
                   skipped_hooks, prompt, log, loaded, runs, prev, stdin>>

\* mutant: the file is left alone when it is no longer what the run loaded
FinishRun_keeps_newer ==
    /\ UNCHANGED <<other_wrote, btvars>>
    /\ pc = "loop"
    /\ idx > NumBindings
    /\ file' = IF file = loaded THEN write_claude_settings(settings) ELSE file
    /\ writes' = writes + 1
    /\ pc' = "done"
    /\ input' = NoInput
    /\ UNCHANGED <<settings, idx, force, auto_approve, updated_hooks,
                   skipped_hooks, prompt, log, loaded, runs, prev, stdin>>

\* lines 619-626: after the last binding, write the file
FinishRun ==
    /\ UNCHANGED <<other_wrote, btvars>>
    /\ pc = "loop"
    /\ idx > NumBindings
    /\ file' = write_claude_settings(settings)
    /\ writes' = writes + 1
    /\ pc' = "done"
    /\ input' = NoInput
    /\ UNCHANGED <<settings, idx, force, auto_approve, updated_hooks,
                   skipped_hooks, prompt, log, loaded, runs, prev, stdin>>

Next ==
    \/ \E f \in BOOLEAN, a \in BOOLEAN : StartRun(f, a)
    \/ ProcessEvent
    \/ \E line \in InputLines : ReadAnswer(line)
    \/ \E line \in InputLines : ReadInvalid(line)
    \/ ReadEof
    \/ ReadError
    \/ FinishRun

Spec == Init /\ [][Next]_vars

---------------------------------------------------------------------------
(* The run beside another process that writes the settings file.  Nothing  *)
(* between read_claude_settings (line 596) and write_claude_settings (line *)
(* 623) locks the file or reads it again.                                  *)

\* the top-level key the other process adds
OtherKey == <<"theme", "dark">>

\* the document the other process writes: what the file holds, with its key
OtherDocument(f) ==
    LET d == IF f.st = "json" /\ f.doc.k = "object" THEN f.doc ELSE EmptyDocument
    IN  [d EXCEPT !.rest = @ \cup {OtherKey}]

\* another process rewrites the file while the run is between load and save
ExternalWrite ==
    /\ pc \in {"loop", "prompt"}
    /\ ~other_wrote
    /\ OtherKey \notin loaded.doc.rest
    /\ file' = File("json", OtherDocument(file), "compact")
    /\ other_wrote' = TRUE
    /\ UNCHANGED btvars
    /\ UNCHANGED <<settings, pc, idx, force, auto_approve, updated_hooks,
                   skipped_hooks, prompt, log, loaded, writes, runs, prev, stdin, input>>

\* the initial files of the runs beside another process: lists of one group
InitRaceFiles ==
    {f \in InitFiles :
        (f.st = "json" /\ f.doc.hooks.k = "object") =>
            \A e \in DOMAIN f.doc.hooks.m :
                f.doc.hooks.m[e].k = "array" => Len(f.doc.hooks.m[e].a) <= 1}

InitRace == Init /\ file \in InitRaceFiles

NextRace == Next \/ ExternalWrite

SpecRace == InitRace /\ [][NextRace]_vars

---------------------------------------------------------------------------
(* `ccgadget pair`: handle_pair, scan_and_select_device, pair_with_device *)

\* bound: the number of peripherals in range
MaxDevices == 2
\* `for _ in 0..15` of pair_with_device
MaxPolls == 15

S_ccg_dash == <<"c","c","g","-">>
S_esp32_ccg == <<"e","s","p","3","2","-","c","c","g">>
S_unknown_device == <<"U","n","k","n","o","w","n"," ","D","e","v","i","c","e">>

\* str::starts_with
starts_with(s, prefix) ==
    Len(s) >= Len(prefix) /\ SubSeq(s, 1, Len(prefix)) = prefix

\* mutant: "ccg-" is looked for anywhere in the name
is_ccgadget_device_ccg_anywhere(name) ==
    LET name_lower == to_lowercase(name)
    IN  \/ Contains(name_lower, S_ccgadget)
        \/ Contains(name_lower, S_ccg_dash)
        \/ Contains(name_lower, S_esp32_ccg)

is_ccgadget_device(name) ==
    LET name_lower == to_lowercase(name)
    IN  \/ Contains(name_lower, S_ccgadget)
        \/ starts_with(name_lower, S_ccg_dash)
        \/ Contains(name_lower, S_esp32_ccg)

\* str::eq_ignore_ascii_case
eq_ignore_ascii_case(a, b) == to_lowercase(a) = to_lowercase(b)

\* a peripheral: whether properties() gives Some, and props.local_name
Peripheral(props, local_name) == [props |-> props, local_name |-> local_name]

\* the names of the devices in range
DeviceNames ==
    { <<"M","y"," ","C","C","G","a","d","g","e","t"," ","D","e","v","i","c","e">>,
      <<"C","C","G","-","O","f","f","i","c","e">>,
      <<"E","S","P","3","2","-","C","C","G","-","T","e","s","t">>,
      <<"E","S","P","3","2","-","O","t","h","e","r">>,
      <<"C","C","G">>,
      <<>>,
      <<"M","y","-","C","C","G","-","L","a","b">> }

InitDevices ==
    {Peripheral(TRUE, JStr(n)) : n \in DeviceNames}
    \cup {Peripheral(TRUE, JAbsent), Peripheral(FALSE, JAbsent)}

InitPeripherals == UNION {[1..n -> InitDevices] : n \in 0..MaxDevices}

\* props.address.to_string() of the i-th peripheral
Digits == <<"0","1","2","3","4","5","6","7","8","9">>
AddressAt(i) == <<"A","A",":","B","B",":","0", Digits[i + 1]>>

\* the values of device_identifier given on the command line
InitIdentifiers == {<<"a","a",":","b","b",":","0","1">>, <<"c","c","g","-","o","f","f","i","c","e">>}

\* lines 296-308: the filtered (name, address) list
RECURSIVE collect_devices(_, _)
collect_devices(ps, i) ==
    IF i > Len(ps) THEN <<>>
    ELSE LET name == as_str_or(ps[i].local_name, S_unknown_device)
         IN  IF ps[i].props /\ is_ccgadget_device(name)
             THEN <<[name |-> name, address |-> AddressAt(i)]>> \o collect_devices(ps, i + 1)
             ELSE collect_devices(ps, i + 1)

\* str::parse::<usize> of decimal digits; -1 stands for Err
RECURSIVE parse_usize(_)
parse_usize(t) ==
    IF t = <<>> THEN -1
    ELSE LET c == t[Len(t)]
             rest == SubSeq(t, 1, Len(t) - 1)
         IN  IF ~\E d \in 1..10 : Digits[d] = c THEN -1
             ELSE LET v == (CHOOSE d \in 1..10 : Digits[d] = c) - 1
                  IN  IF rest = <<>> THEN v
                      ELSE IF parse_usize(rest) = -1 THEN -1
                      ELSE parse_usize(rest) * 10 + v

\* the lines typed at the selection prompt
SelectLines == {<<"0","\n">>, <<"1","\n">>, <<" ","2"," ","\n">>, <<"3","\n">>,
                <<"0","1","\n">>, <<"x","\n">>, <<>>}

\* whether the peripheral at position i matches device_identifier (lines 415-426)
matches_identifier(ps, i, id) ==
    /\ ps[i].props
    /\ \/ eq_ignore_ascii_case(AddressAt(i), id)
       \/ eq_ignore_ascii_case(as_str_or(ps[i].local_name, S_empty), id)

\* lines 226-278 of scan_and_select_device: manager, adapter, start_scan
ScanStart(ok) ==
    /\ bt_pc = "idle"
    /\ IF ok
       THEN scanning' = "on" /\ bt_pc' = "scanned"
       ELSE scanning' = scanning /\ bt_pc' = "err"
    /\ UNCHANGED <<peripherals, devices, polls, found_peripheral, device_identifier>>
    /\ UNCHANGED hookvars

\* lines 281-319: sleep, stop_scan, peripherals, the filter
ScanCollect(outcome) ==
    /\ bt_pc = "scanned"
    /\ scanning' = "stopped"
    /\ IF outcome \in {"stop_err", "peripherals_err"}
       THEN bt_pc' = "err" /\ devices' = devices
       ELSE IF peripherals = <<>>
       THEN bt_pc' = "none" /\ devices' = devices
       ELSE IF outcome = "properties_err"
       THEN bt_pc' = "err" /\ devices' = devices
       ELSE /\ devices' = collect_devices(peripherals, 1)
            /\ bt_pc' = IF devices' = <<>> THEN "none" ELSE "select"
    /\ UNCHANGED <<peripherals, polls, found_peripheral, device_identifier>>
    /\ UNCHANGED hookvars

\* lines 327-348: one line read at "Select a device to pair with"
SelectDevice(line) ==
    /\ bt_pc = "select"
    /\ LET selection == parse_usize(trim(line))
       IN  IF selection = 0
           THEN bt_pc' = "none" /\ device_identifier' = device_identifier
           ELSE IF selection >= 1 /\ selection <= Len(devices)
           THEN bt_pc' = "selected" /\ device_identifier' = devices[selection].address
           ELSE bt_pc' = bt_pc /\ device_identifier' = device_identifier
    /\ UNCHANGED <<scanning, peripherals, devices, polls, found_peripheral>>
    /\ UNCHANGED hookvars

\* line 333: read_line gives Err
SelectReadError ==
    /\ bt_pc = "select"
    /\ bt_pc' = "err"
    /\ UNCHANGED <<scanning, peripherals, devices, polls, found_peripheral,
                   device_identifier>>
    /\ UNCHANGED hookvars

\* lines 352-406 of pair_with_device: manager, adapter, start_scan
PairStart(id, ok) ==
    /\ \/ bt_pc = "idle" /\ id \in InitIdentifiers
       \/ bt_pc = "selected" /\ id = device_identifier
    /\ device_identifier' = id
    /\ IF ok
       THEN scanning' = "on" /\ bt_pc' = "poll"
       ELSE scanning' = scanning /\ bt_pc' = "err"
    /\ polls' = 0
    /\ found_peripheral' = FALSE
    /\ UNCHANGED <<peripherals, devices>>
    /\ UNCHANGED hookvars

\* lines 410-432: one iteration of the polling loop; the loop counter ends
\* with the loop
PairPoll(outcome) ==
    /\ bt_pc = "poll"
    /\ LET seen == IF outcome = "visible" THEN peripherals ELSE <<>>
           hit == \E i \in 1..Len(seen) : matches_identifier(seen, i, device_identifier)
       IN  IF \/ outcome = "peripherals_err"
              \/ outcome = "properties_err" /\ peripherals # <<>>
           THEN /\ bt_pc' = "err"
                /\ polls' = 0
                /\ UNCHANGED found_peripheral
           ELSE /\ found_peripheral' = hit
                /\ bt_pc' = IF hit \/ polls + 1 = MaxPolls THEN "stop" ELSE "poll"
                /\ polls' = IF bt_pc' = "stop" THEN 0 ELSE polls + 1
    /\ UNCHANGED <<scanning, peripherals, devices, device_identifier>>
    /\ UNCHANGED hookvars

\* lines 434-437: stop_scan, then the check of found_peripheral
PairStop(ok) ==
    /\ bt_pc = "stop"
    /\ scanning' = "stopped"
    /\ bt_pc' = IF ok /\ found_peripheral THEN "connect" ELSE "err"
    /\ UNCHANGED <<peripherals, devices, polls, found_peripheral, device_identifier>>
    /\ UNCHANGED hookvars

\* lines 442-459: connect, discover_services, disconnect
PairConnect(ok) ==
    /\ bt_pc = "connect"
    /\ bt_pc' = IF ok THEN "paired" ELSE "err"
    /\ UNCHANGED <<scanning, peripherals, devices, polls, found_peripheral,
                   device_identifier>>
    /\ UNCHANGED hookvars

InitBluetooth ==
    /\ file = MissingFile
    /\ BluetoothIdle
    /\ peripherals \in InitPeripherals
    /\ HooksIdle

NextBluetooth ==
    \/ \E ok \in BOOLEAN : ScanStart(ok)
    \/ \E outcome \in {"ok", "stop_err", "peripherals_err", "properties_err"} :
          ScanCollect(outcome)
    \/ \E line \in SelectLines : SelectDevice(line)
    \/ SelectReadError
    \/ \E id \in InitIdentifiers \cup {device_identifier}, ok \in BOOLEAN : PairStart(id, ok)
    \/ \E outcome \in {"visible", "hidden", "peripherals_err", "properties_err"} :
          PairPoll(outcome)
    \/ \E ok \in BOOLEAN : PairStop(ok)
    \/ \E ok \in BOOLEAN : PairConnect(ok)

SpecBluetooth == InitBluetooth /\ [][NextBluetooth]_vars

---------------------------------------------------------------------------
(* Properties.  In each, l ranges over the bindings the current run has    *)
(* processed: l.before is hooks[event] when its step began, After(l.event) *)
(* is hooks[event] now, l.asked counts the prompts invoked for the event   *)
(* and l.action is the action applied.                                     *)

\* C1: an event whose list holds an exact match yields AlreadyExists, keeps
\* hooks[event] as it was and invokes no prompt, whatever the flags and the
\* other groups of the list are.
C1_ExactMatchShortCircuits ==
    /\ \A l \in Entries :
          IsExactMatch(l.before, TargetOf(l.event)) =>
              /\ l.result = "AlreadyExists"
              /\ l.asked = 0
              /\ l.action = "None"
              /\ After(l.event) = l.before
    /\ pc = "prompt" => ~IsExactMatch(After(EventAt(idx)), CommandAt(idx))

C1_Witness ==
    \E l \in Entries :
        /\ IsExactMatch(l.before, TargetOf(l.event))
        /\ HasUnrelatedGroups(l.before, TargetOf(l.event))
        /\ l.before.a[1] # ExpectedGroup(TargetOf(l.event))
        /\ force /\ auto_approve
        /\ l.result = "AlreadyExists"

\* a run has completed after a completed run that found no foreign hooks
SecondRunDone == pc = "done" /\ prev.status = "done" /\ prev.no_foreign

\* C2 (as stated): after two runs with no foreign hooks, every event of the
\* second run yields AlreadyExists and hooks[event] is what the first run left.
C2_Idempotence ==
    SecondRunDone =>
        \A i \in 1..NumBindings :
            /\ log[i].result = "AlreadyExists"
            /\ After(EventAt(i)) = Get(loaded.doc.hooks.m, EventAt(i))

\* C2 (amended): the same, for every event the first run did not skip.
C2_IdempotenceUnlessSkipped ==
    SecondRunDone =>
        \A i \in 1..NumBindings :
            prev.results[i] # "Skipped" =>
                /\ log[i].result = "AlreadyExists"
                /\ After(EventAt(i)) = Get(loaded.doc.hooks.m, EventAt(i))

C2_Witness ==
    /\ SecondRunDone
    /\ \E i, j \in 1..NumBindings :
          /\ prev.results[i] = "Skipped"
          /\ prev.results[j] = "Added"
          /\ log[j].result = "AlreadyExists"
          /\ Len(After(EventAt(j)).a) = 1

\* C3: with --force and without --yes, a group with no entry related to the
\* target command is removed from an event's list only if the prompt was
\* invoked for that event.
C3_ForceKeepsForeign ==
    \A l \in Entries :
        (force /\ ~auto_approve /\ l.before.k = "array" /\ l.asked = 0) =>
            \A j \in 1..Len(l.before.a) :
                ~RelatedGroup(l.before.a[j], TargetOf(l.event)) =>
                    /\ After(l.event).k = "array"
                    /\ \E n \in 1..Len(After(l.event).a) :
                          After(l.event).a[n] = l.before.a[j]

\* C4: a list of unrelated groups only, without --yes and with Append as the
\* answer: the list grows by one, the old groups stay as they were and in
\* order, and the new ccgadget group is last.
C4_AppendPreservesForeign ==
    \A l \in Entries :
        ( /\ ~auto_approve
          /\ l.before.k = "array"
          /\ l.before.a # <<>>
          /\ ~AnyRelatedMatch(l.before, TargetOf(l.event))
          /\ l.action = "Append" ) =>
            LET after == After(l.event)
                n == Len(l.before.a)
            IN  /\ l.result = "Added"
                /\ after.k = "array"
                /\ Len(after.a) = n + 1
                /\ SubSeq(after.a, 1, n) = l.before.a
                /\ after.a[n + 1] = ExpectedGroup(TargetOf(l.event))

C4_Witness ==
    \E l \in Entries :
        /\ ~auto_approve
        /\ l.before.k = "array"
        /\ Len(l.before.a) = 2
        /\ l.before.a[1] # l.before.a[2]
        /\ ~AnyRelatedMatch(l.before, TargetOf(l.event))
        /\ l.asked = 1
        /\ l.action = "Append"
        /\ Len(After(l.event).a) = 3

\* C5: Replace is applied only when a related group existed and --force or
\* --yes was given, or when the prompt answered Replace; an event whose list
\* holds only unrelated groups keeps them all unless the prompt was invoked.
C5_ReplaceOnlyWhenAuthorized ==
    \A l \in Entries :
        /\ (l.action = "Replace" /\ l.asked = 0) =>
              /\ AnyRelatedMatch(l.before, TargetOf(l.event))
              /\ (force \/ auto_approve)
        /\ ( /\ l.before.k = "array"
             /\ ~AnyRelatedMatch(l.before, TargetOf(l.event))
             /\ l.asked = 0 ) =>
              /\ After(l.event).k = "array"
              /\ Len(After(l.event).a) >= Len(l.before.a)
              /\ SubSeq(After(l.event).a, 1, Len(l.before.a)) = l.before.a

C5_Witness ==
    \E l \in Entries :
        /\ l.action = "Replace"
        /\ l.asked = 1
        /\ l.decision = "AskOther"
        /\ ~AnyRelatedMatch(l.before, TargetOf(l.event))
        /\ After(l.event).a = <<ExpectedGroup(TargetOf(l.event))>>

\* C6: an event with no exact and no related group and at least one group
\* that holds no entry containing the target command: with --yes the action
\* is Append without a prompt, otherwise the prompt is invoked.
C6_ForeignOnlyAsksUnlessYes ==
    \A l \in Entries :
        ( /\ l.before.k = "array"
          /\ ~IsExactMatch(l.before, TargetOf(l.event))
          /\ ~AnyRelatedMatch(l.before, TargetOf(l.event))
          /\ HasUnrelatedGroups(l.before, TargetOf(l.event)) ) =>
            IF auto_approve
            THEN l.action = "Append" /\ l.asked = 0
            ELSE l.asked = 1 /\ l.decision = "AskOther"

\* the effect of an action on hooks[event]
Applied(l) ==
    LET after == After(l.event)
        target == TargetOf(l.event)
    IN  CASE l.action = "Skip" -> l.result = "Skipped" /\ after = l.before
          [] l.action = "Replace" ->
                l.result = "Added" /\ after = [k |-> "array", a |-> <<ExpectedGroup(target)>>]
          [] l.action = "Append" ->
                /\ l.result = "Added"
                /\ after.k = "array"
                /\ after.a # <<>>
                /\ after.a[Len(after.a)] = ExpectedGroup(target)
          [] OTHER -> FALSE

\* C7: an event with a related group and no exact match: Replace without a
\* prompt under --force, Replace without a prompt under --yes, and otherwise
\* the "fix mismatched hook" prompt once, whose answer is the action applied
\* (a prompt whose read fails has no answer and applies nothing).
C7_RelatedMismatchDecision ==
    /\ \A l \in Entries :
          ( /\ ~IsExactMatch(l.before, TargetOf(l.event))
            /\ AnyRelatedMatch(l.before, TargetOf(l.event)) ) =>
              IF force \/ auto_approve
              THEN Applied(l) /\ l.action = "Replace" /\ l.asked = 0
              ELSE /\ l.decision = "AskFix"
                   /\ l.asked = 1
                   /\ IF l.result = "Error"
                      THEN l.action = "None" /\ After(l.event) = l.before
                      ELSE Applied(l) /\ l.action \in HookAction
    /\ ( /\ pc = "prompt"
         /\ AnyRelatedMatch(After(EventAt(idx)), CommandAt(idx)) ) =>
          /\ ~force /\ ~auto_approve
          /\ prompt.kind = "AskFix"
          /\ prompt.asked = 1

C7_Witness ==
    /\ \E l \in Entries :
          /\ AnyRelatedMatch(l.before, TargetOf(l.event))
          /\ l.decision = "AskFix"
          /\ l.action = "Append"
    /\ \E l \in Entries :
          /\ AnyRelatedMatch(l.before, TargetOf(l.event))
          /\ l.decision = "AskFix"
          /\ l.action = "Skip"

\* a witness of the two automatic cases of C7
C7_AutomaticReached ==
    \E l \in Entries :
        /\ AnyRelatedMatch(l.before, TargetOf(l.event))
        /\ HasUnrelatedGroups(l.before, TargetOf(l.event))
        /\ l.action = "Replace" /\ l.asked = 0
        /\ auto_approve /\ ~force

\* C8: Append on a list with two or more stale related groups leaves exactly
\* one related group, the freshly appended one, at the end of the list.
C8_AppendDeduplicates ==
    \A l \in Entries :
        ( /\ l.action = "Append"
          /\ l.before.k = "array"
          /\ Len(RelatedOf(l.before.a, TargetOf(l.event))) >= 2 ) =>
            LET after == After(l.event)
            IN  /\ after.k = "array"
                /\ RelatedOf(after.a, TargetOf(l.event)) = <<ExpectedGroup(TargetOf(l.event))>>
                /\ after.a[Len(after.a)] = ExpectedGroup(TargetOf(l.event))

C8_Witness ==
    \E l \in Entries :
        /\ l.action = "Append"
        /\ l.before.k = "array"
        /\ Len(RelatedOf(l.before.a, TargetOf(l.event))) = 2
        /\ l.before.a[1] # l.before.a[2]
        /\ Len(After(l.event).a) = 1

\* C9: Append removes a group only if it holds an entry whose command
\* contains the target command; the other groups stay, unchanged and in order.
C9_AppendRemovesOnlyRelated ==
    \A l \in Entries :
        (l.action = "Append" /\ l.before.k = "array" /\ l.result = "Added") =>
            /\ After(l.event).k = "array"
            /\ UnrelatedOf(After(l.event).a, TargetOf(l.event))
                  = UnrelatedOf(l.before.a, TargetOf(l.event))

\* C10: Replace leaves hooks[event] with exactly the one ccgadget group,
\* whatever groups it held, and the outcome is Added.
C10_ReplaceLeavesOneGroup ==
    \A l \in Entries :
        l.action = "Replace" =>
            /\ l.result = "Added"
            /\ After(l.event) = [k |-> "array", a |-> <<ExpectedGroup(TargetOf(l.event))>>]

C10_Witness ==
    \E l \in Entries :
        /\ l.action = "Replace"
        /\ l.before.k = "array"
        /\ Len(l.before.a) = 2
        /\ AnyRelatedMatch(l.before, TargetOf(l.event))
        /\ HasUnrelatedGroups(l.before, TargetOf(l.event))
        /\ Len(After(l.event).a) = 1

\* C11: a binding whose event key is absent from `hooks` gets exactly the
\* one ccgadget group, is reported Added and invokes no prompt, for all flags.
C11_AbsentEventCreated ==
    /\ \A l \in Entries :
          (l.before.k = "absent" /\ settings.hooks.k = "object") =>
              /\ l.result = "Added"
              /\ l.asked = 0
              /\ After(l.event) = [k |-> "array", a |-> <<ExpectedGroup(TargetOf(l.event))>>]
    /\ pc = "prompt" => EventAt(idx) \in DOMAIN settings.hooks.m

C11_Witness ==
    /\ pc = "done"
    /\ loaded.st = "json" /\ loaded.doc = EmptyDocument
    /\ force /\ auto_approve
    /\ \A i \in 1..NumBindings :
          /\ log[i].before.k = "absent"
          /\ log[i].result = "Added"
          /\ Len(After(EventAt(i)).a) = 1

\* C12: when the prompt answers Skip, hooks[event] stays as it was, the
\* outcome is Skipped, and the run goes on with the next binding.
C12_SkipLeavesEventAndContinues ==
    \A i \in 1..Len(log) :
        log[i].action = "Skip" =>
            /\ log[i].result = "Skipped"
            /\ log[i].asked = 1
            /\ After(log[i].event) = log[i].before
            /\ idx > i
            /\ pc = "failed" => Len(log) > i
            /\ pc = "done" => Len(log) = NumBindings

C12_Witness ==
    /\ pc = "done"
    /\ \E i \in 1..(NumBindings - 1) :
          /\ log[i].action = "Skip"
          /\ log[i].before.a # <<>>
          /\ log[i + 1].result = "Added"
          /\ log[NumBindings].action = "Append"

\* C13: a value of hooks[event] that is not an array aborts the run with an
\* error, and the file is never written: it keeps the content the run loaded,
\* also when earlier bindings were already applied in memory.
C13_NonArrayEventAborts ==
    \A i \in 1..Len(log) :
        (log[i].before.k \notin {"array", "absent"}) =>
            /\ pc = "failed"
            /\ i = Len(log)
            /\ log[i].result = "Error"
            /\ writes = 0
            /\ file = loaded

C13_Witness ==
    /\ pc = "failed"
    /\ Len(log) = 3
    /\ log[1].result = "Added"
    /\ log[3].before.k = "string"
    /\ EventAt(1) \in DOMAIN settings.hooks.m
    /\ EventAt(1) \notin DOMAIN file.doc.hooks.m

\* C14: a settings file whose content is JSON but no JSON object (null, an
\* array, a number, a string) aborts the run, and the file is not rewritten.
C14_NonObjectDocumentAborts ==
    (runs >= 1 /\ loaded.st = "json" /\ loaded.doc.k # "object") =>
        /\ pc \in {"loop", "failed"}
        /\ writes = 0
        /\ file = loaded
        /\ \A l \in Entries : l.result = "Error"

\* a HookGroup of invalid shape: `hooks` is no array, or an entry has no
\* string command
InvalidShape(g) ==
    \/ g.hooks.k # "array"
    \/ \E i \in 1..Len(g.hooks.a) : g.hooks.a[i].command.k # "string"

\* C15: an event whose list holds a HookGroup of invalid shape fails with an
\* error that aborts the run; the group is not treated as a foreign group.
C15_InvalidGroupAborts ==
    /\ \A l \in Entries :
          (l.before.k = "array" /\ \E j \in 1..Len(l.before.a) : InvalidShape(l.before.a[j])) =>
              l.result = "Error" /\ pc = "failed"
    /\ pc = "prompt" =>
          \A j \in 1..Len(After(EventAt(idx)).a) : ~InvalidShape(After(EventAt(idx)).a[j])

\* C16: when the input stream is at its end while a prompt waits for an
\* answer, the prompt terminates and the run aborts.
C16_ClosedInputAborts ==
    stdin = "eof" => pc = "failed"

\* the words of a choice
ChoiceWords(action) ==
    CASE action = "Replace" -> {<<"r">>, <<"r","e","p","l","a","c","e">>}
      [] action = "Append" -> {<<"a">>, <<"a","p","p","e","n","d">>}
      [] action = "Skip" -> {<<"s">>, <<"s","k","i","p">>}
      [] OTHER -> {}

\* C17: a prompt returns Replace, Append or Skip only, and only for a line
\* that trimmed and lower-cased is r/replace, a/append or s/skip; any other
\* line is asked again and selects no action.
C17_PromptReturnsOnlyChoices ==
    /\ \A l \in Entries : (l.asked > 0 /\ l.result # "Error") => l.action \in HookAction
    /\ (input.read /\ pc # "prompt") =>
          LET l == log[Len(log)]
          IN  /\ l.asked = 1
              /\ l.action \in HookAction
              /\ to_lowercase(trim(input.s)) \in ChoiceWords(l.action)
    /\ ( /\ input.read
         /\ \A c \in HookAction : to_lowercase(trim(input.s)) \notin ChoiceWords(c) ) =>
          /\ pc = "prompt"
          /\ Len(log) = idx - 1

C17_Witness ==
    /\ input = Line(<<" ","s","k","i","p"," ","\n">>)
    /\ pc = "loop"
    /\ log[Len(log)].action = "Skip"
    /\ log[Len(log)].decision = "AskFix"

\* a witness of the re-prompt of C17
C17_Reprompted ==
    /\ input = Line(<<"r","s","\n">>)
    /\ pc = "prompt"
    /\ prompt.invalid = 1
    /\ prompt.kind = "AskOther"

\* C18: a run that completes has written the document to the file once, after
\* the last binding; while bindings are processed the file is as it was
\* loaded; the write also happens when every outcome was AlreadyExists or
\* Skipped.
C18_PersistedOnceAfterLoop ==
    /\ pc \in {"loop", "prompt"} => (writes = 0 /\ file = loaded)
    /\ pc = "done" =>
          /\ writes = 1
          /\ Len(log) = NumBindings
          /\ file = [st |-> "json", doc |-> settings, fmt |-> "pretty"]

C18_Witness ==
    /\ pc = "done"
    /\ writes = 1
    /\ settings = loaded.doc
    /\ \A l \in Entries : l.result \in {"AlreadyExists", "Skipped"}
    /\ \E l \in Entries : l.result = "Skipped"
    /\ \E l \in Entries : l.result = "AlreadyExists"

\* the events of the desired bindings
DesiredEvents == {EventAt(i) : i \in 1..NumBindings}

\* the keys of `hooks` in document d
HookKeys(d) == IF d.hooks.k = "object" THEN DOMAIN d.hooks.m ELSE {}

\* C19: after a successful run every top-level key other than `hooks` and
\* every key of `hooks` that is no desired event has the value it had in the
\* file the run loaded.
C19_UnrelatedKeysUnchanged ==
    pc = "done" =>
        /\ file.doc.rest = loaded.doc.rest
        /\ HookKeys(file.doc) \ DesiredEvents = HookKeys(loaded.doc) \ DesiredEvents
        /\ \A e \in HookKeys(loaded.doc) \ DesiredEvents :
              file.doc.hooks.m[e] = loaded.doc.hooks.m[e]

C19_Witness ==
    /\ pc = "done"
    /\ loaded.doc.rest # {}
    /\ ForeignEvent \in HookKeys(loaded.doc)
    /\ \E l \in Entries : l.action = "Replace"
    /\ \E l \in Entries : l.action = "Append"
    /\ file.doc # loaded.doc

\* a witness of C19 for a document that had no `hooks` key
C19_HooksCreated ==
    /\ pc = "done"
    /\ loaded.doc.rest # {}
    /\ loaded.doc.hooks.k = "absent"

\* the position of event e among the desired bindings
BindingIndex(e) == CHOOSE i \in 1..NumBindings : EventAt(i) = e

\* C20: the count reported by a successful run is the number of bindings
\* whose outcome was Added, and the skipped list holds exactly the events
\* whose outcome was Skipped, in binding order.
C20_SummaryCounts ==
    pc = "done" =>
        /\ updated_hooks = Cardinality({i \in 1..Len(log) : log[i].result = "Added"})
        /\ Len(skipped_hooks) = Cardinality({i \in 1..Len(log) : log[i].result = "Skipped"})
        /\ \A i \in 1..Len(log) :
              log[i].result = "Skipped" <=>
                  \E j \in 1..Len(skipped_hooks) : skipped_hooks[j] = log[i].event
        /\ \A j, k \in 1..Len(skipped_hooks) :
              j < k => BindingIndex(skipped_hooks[j]) < BindingIndex(skipped_hooks[k])

C20_Witness ==
    /\ pc = "done"
    /\ skipped_hooks = <<"PreToolUse", "Stop">>
    /\ updated_hooks = 3

\* a witness of C20 with AlreadyExists outcomes, counted in neither
C20_ExistingInNeither ==
    /\ pc = "done"
    /\ skipped_hooks = <<"Stop">>
    /\ updated_hooks = 0
    /\ Cardinality({i \in 1..Len(log) : log[i].result = "AlreadyExists"}) = 4

\* { matcher: string, hooks: [HookEntry] } with HookEntry { type, command }
IsHookGroup(g) ==
    /\ g.matcher.k = "string"
    /\ g.hooks.k = "array"
    /\ \A i \in 1..Len(g.hooks.a) :
          g.hooks.a[i].type.k = "string" /\ g.hooks.a[i].command.k = "string"

\* C21: after a run that completes, the persisted document has a `hooks`
\* object, and the value under every desired event whose outcome was Added is
\* an array of HookGroups.
C21_HooksObjectOfGroupLists ==
    pc = "done" =>
        /\ file.doc.k = "object"
        /\ file.doc.hooks.k = "object"
        /\ \A l \in Entries : l.result = "Added" =>
              LET v == Get(file.doc.hooks.m, l.event)
              IN  /\ v.k = "array"
                  /\ \A j \in 1..Len(v.a) : IsHookGroup(v.a[j])

\* the part of C21 that holds: a `hooks` object, and under every event with
\* outcome Added an array that ends with or consists of the tool's group
C21_HooksObjectOfArrays ==
    pc = "done" =>
        /\ file.doc.k = "object"
        /\ file.doc.hooks.k = "object"
        /\ \A l \in Entries : l.result = "Added" =>
              LET v == Get(file.doc.hooks.m, l.event)
              IN  /\ v.k = "array"
                  /\ v.a # <<>>
                  /\ v.a[Len(v.a)] = ExpectedGroup(TargetOf(l.event))

\* a value that is a list of HookGroups
IsHookGroupList(v) == v.k = "array" /\ \A j \in 1..Len(v.a) : IsHookGroup(v.a[j])

\* some group of the list has the matcher "" and exactly one entry, of type
\* "command" and with a command equal to target
SomeGroupIsTheHook(v, target) ==
    \E j \in 1..Len(v.a) :
        /\ v.a[j].matcher.s = <<>>
        /\ Len(v.a[j].hooks.a) = 1
        /\ v.a[j].hooks.a[1].type.s = S_command
        /\ v.a[j].hooks.a[1].command.s = target

\* a group that has the tool's command, or a sub- or superstring of it, in an
\* entry, and is not exactly the tool's group
NearMiss(g, target) ==
    /\ g # ExpectedGroup(target)
    /\ \E i \in 1..Len(g.hooks.a) :
          \/ Contains(g.hooks.a[i].command.s, target)
          \/ Contains(target, g.hooks.a[i].command.s)

C22_Superstring ==
    /\ After(EventAt(1)) = JArr(<<G_longer>>)
    /\ ~exact_hook_exists(After(EventAt(1)), CommandAt(1))

C22_Substring ==
    /\ After(EventAt(1)) = JArr(<<G_prefix>>)
    /\ ~exact_hook_exists(After(EventAt(1)), CommandAt(1))

C22_Exact ==
    /\ After(EventAt(1)) = JArr(<<G_lint, G_exact>>)
    /\ exact_hook_exists(After(EventAt(1)), CommandAt(1))

\* an event that is new: its key is absent, or holds the empty list
IsNewEvent(v) == v.k = "absent" \/ (v.k = "array" /\ v.a = <<>>)

\* C23: an absent event key and an empty array are treated alike: neither is
\* an exact match, a related match or a list with unrelated groups; no prompt
\* is invoked, the outcome is Added, and hooks[event] ends as the one group.
C23_AbsentLikeEmpty ==
    /\ \A l \in Entries :
          (IsNewEvent(l.before) /\ settings.hooks.k = "object") =>
              LET target == TargetOf(l.event)
              IN  /\ ~IsExactMatch(l.before, target)
                  /\ ~AnyRelatedMatch(l.before, target)
                  /\ ~HasUnrelatedGroups(l.before, target)
                  /\ ~exact_hook_exists(l.before, target)
                  /\ ~any_ccgadget_hook_exists(l.before, target)
                  /\ ~has_non_ccgadget_hooks(l.before)
                  /\ l.asked = 0
                  /\ l.result = "Added"
                  /\ After(l.event) = [k |-> "array", a |-> <<ExpectedGroup(target)>>]
    /\ pc = "prompt" => ~IsNewEvent(After(EventAt(idx)))

C23_Witness ==
    /\ pc = "done"
    /\ \E l1, l2 \in Entries :
          /\ l1.before.k = "absent"
          /\ l2.before.k = "array" /\ l2.before.a = <<>>
          /\ l1.result = "Added" /\ l2.result = "Added"
          /\ l1.asked = 0 /\ l2.asked = 0
          /\ After(l1.event) = After(l2.event)
          /\ Len(After(l2.event).a) = 1
    /\ ~force /\ ~auto_approve

\* a group that holds no entry whose command names ccgadget
NoCcgadgetEntry(g) ==
    \/ g.hooks.k # "array"
    \/ \A i \in 1..Len(g.hooks.a) :
          ~(g.hooks.a[i].command.k = "string" /\ Contains(g.hooks.a[i].command.s, S_ccgadget))

\* C24: after a run with --yes every group that the loaded document held
\* under a desired event and that has no ccgadget entry is still in that
\* event's list.
C24_YesKeepsExistingHooks ==
    (pc = "done" /\ auto_approve /\ loaded.doc.hooks.k = "object") =>
        \A e \in DesiredEvents \cap HookKeys(loaded.doc) :
            LET before == loaded.doc.hooks.m[e]
                after == Get(file.doc.hooks.m, e)
            IN  before.k = "array" =>
                  \A j \in 1..Len(before.a) :
                      NoCcgadgetEntry(before.a[j]) =>
                          /\ after.k = "array"
                          /\ \E n \in 1..Len(after.a) : after.a[n] = before.a[j]
\* the run that refutes C24: --yes alone, a third-party hook beside a stale
\* ccgadget hook, and only the tool's group left at the end
C24_ForeignHookLost ==
    /\ pc = "done" /\ auto_approve /\ ~force
    /\ loaded.doc.hooks.k = "object"
    /\ Get(loaded.doc.hooks.m, "UserPromptSubmit") = JArr(<<G_lint, G_longer>>)
    /\ Get(file.doc.hooks.m, "UserPromptSubmit") = JArr(<<G_exact>>)

\* C25: when another process has written the file after the run loaded it,
\* the run's save replaces the whole file by the run's document, and what the
\* other process wrote is not in the final file.
C25_LastWriterWins ==
    (pc = "done" /\ other_wrote) =>
        /\ file = [st |-> "json", doc |-> settings, fmt |-> "pretty"]
        /\ OtherKey \notin file.doc.rest
        /\ file.doc.rest = loaded.doc.rest

C25_Witness ==
    /\ pc = "done"
    /\ other_wrote
    /\ OtherKey \notin file.doc.rest
    /\ \E l \in Entries : l.asked = 1
    /\ loaded.doc.rest # {}

\* the name under which the scan lists a peripheral
ScanName(p) == IF p.local_name.k = "string" THEN p.local_name.s ELSE S_unknown_device

\* the name low holds the word w at position i
WordAt(low, w, i) ==
    /\ i + Len(w) - 1 <= Len(low)
    /\ \A j \in 1..Len(w) : low[i + j - 1] = w[j]

\* the lower-cased name contains "ccgadget", starts with "ccg-", or contains
\* "esp32-ccg"
AcceptedName(name) ==
    LET low == to_lowercase(name) IN
    \/ \E i \in 1..Len(low) : WordAt(low, S_ccgadget, i)
    \/ WordAt(low, <<"c","c","g","-">>, 1)
    \/ \E i \in 1..Len(low) : WordAt(low, <<"e","s","p","3","2","-","c","c","g">>, i)

\* the peripherals the scan lists, in order
RECURSIVE AcceptedOf(_, _)
AcceptedOf(ps, i) ==
    IF i > Len(ps) THEN <<>>
    ELSE IF ps[i].props /\ AcceptedName(ScanName(ps[i]))
         THEN <<ScanName(ps[i])>> \o AcceptedOf(ps, i + 1)
         ELSE AcceptedOf(ps, i + 1)

\* C26: is_ccgadget_device accepts a name iff, lower-cased, it contains
\* "ccgadget", starts with "ccg-" or contains "esp32-ccg"; "CCG", "" and
\* "ESP32-Other" are rejected; this holds of every name the scan has filtered,
\* and the scan lists exactly the accepted names.
C26_DeviceNameFilter ==
    /\ bt_pc \in {"select", "selected", "none"} =>
          \A i \in 1..Len(peripherals) :
              LET name == ScanName(peripherals[i])
              IN  /\ is_ccgadget_device(name) <=> AcceptedName(name)
                  /\ is_ccgadget_device(name) <=> is_ccgadget_device(to_lowercase(name))
                  /\ name \in {<<"C","C","G">>, <<>>, <<"E","S","P","3","2","-","O","t","h","e","r">>} => ~is_ccgadget_device(name)
    /\ bt_pc \in {"select", "selected"} =>
          /\ devices # <<>>
          /\ [i \in 1..Len(devices) |-> devices[i].name] = AcceptedOf(peripherals, 1)

C26_Witness ==
    /\ bt_pc = "select"
    /\ peripherals = <<Peripheral(TRUE, JStr(<<"C","C","G">>)), Peripheral(TRUE, JStr(<<"C","C","G","-","O","f","f","i","c","e">>))>>
    /\ Len(devices) = 1
    /\ devices[1].name = <<"C","C","G","-","O","f","f","i","c","e">>

\* witnesses of C26: "esp32-ccg" inside an upper-case name; "ccg-" inside a
\* name is no match
C26_Esp32 ==
    /\ bt_pc = "select"
    /\ peripherals = <<Peripheral(TRUE, JStr(<<"M","y","-","C","C","G","-","L","a","b">>)), Peripheral(TRUE, JStr(<<"E","S","P","3","2","-","C","C","G","-","T","e","s","t">>))>>
    /\ Len(devices) = 1
    /\ devices[1].name = <<"E","S","P","3","2","-","C","C","G","-","T","e","s","t">>

C26_NoneAccepted ==
    /\ bt_pc = "none"
    /\ scanning = "stopped"
    /\ peripherals = <<Peripheral(TRUE, JStr(<<>>)), Peripheral(TRUE, JStr(<<"E","S","P","3","2","-","O","t","h","e","r">>))>>

\* C30: when pair_with_device has returned, a scan that it started has been
\* stopped.
C30_ScanStoppedOnReturn ==
    bt_pc \in {"paired", "err", "none"} => scanning # "on"

\* the three ways pair_with_device leaves the polling loop
C30_FoundPath ==
    bt_pc = "paired" /\ found_peripheral /\ scanning = "stopped"

C30_NotFoundPath ==
    /\ bt_pc = "err" /\ ~found_peripheral /\ scanning = "stopped"
    /\ device_identifier \in InitIdentifiers

C30_ErrorPath ==
    bt_pc = "err" /\ ~found_peripheral /\ scanning = "on"

----------------------------------------------------------------------------
\* C27: after a run that completed, every binding whose outcome is Added or
\* AlreadyExists has an exact hook for its command under its event in the
\* persisted document; a binding left without one has the outcome Skipped.
\* (A group without a string matcher is read as having the matcher "", as
\* is_exact_ccgadget_hook reads it.)
C27_ConfiguredMeansExactPersisted ==
    (pc = "done" /\ file.st = "json" /\ file.doc.hooks.k = "object") =>
        \A l \in Entries :
            LET persisted == Get(file.doc.hooks.m, l.event) IN
            /\ l.result \in {"Added", "AlreadyExists"} =>
                   IsExactMatch(persisted, TargetOf(l.event))
            /\ ~IsExactMatch(persisted, TargetOf(l.event)) =>
                   l.result = "Skipped"

\* a completed run that replaced a related hook and skipped another event,
\* which stays without an exact hook
C27_Witness ==
    /\ pc = "done"
    /\ file.st = "json" /\ file.doc.hooks.k = "object"
    /\ \E l \in Entries :
          /\ l.result = "Added" /\ l.action = "Replace"
          /\ IsExactMatch(Get(file.doc.hooks.m, l.event), TargetOf(l.event))
    /\ \E l \in Entries :
          /\ l.result = "Skipped"
          /\ ~IsExactMatch(Get(file.doc.hooks.m, l.event), TargetOf(l.event))

\* a completed run that found an exact hook and left it in the file
C27_ExistingStillExact ==
    /\ pc = "done"
    /\ \E l \in Entries :
          /\ l.result = "AlreadyExists"
          /\ file.st = "json" /\ file.doc.hooks.k = "object"
          /\ IsExactMatch(Get(file.doc.hooks.m, l.event), TargetOf(l.event))

----------------------------------------------------------------------------
\* the events of the specification's binding list, in its order
BindingOrder ==
    <<"UserPromptSubmit", "PreToolUse", "PostToolUse", "Notification", "Stop">>

\* the number of bindings of this run recorded with outcome r
OutcomeCount(r) == Cardinality({i \in 1..Len(log) : log[i].result = r})

\* C28: a run processes each binding exactly once, in list order, and gives it
\* one outcome: the i-th binding processed is the i-th of the list, the loop
\* stands at the first binding without an outcome, and in a completed run the
\* numbers of Added, Skipped and AlreadyExists outcomes sum to the number of
\* bindings.
C28_EachBindingOnceInOrder ==
    /\ Len(log) <= Len(BindingOrder)
    /\ \A i \in 1..Len(log) : log[i].event = BindingOrder[i]
    /\ pc \in {"loop", "prompt"} =>
          /\ Len(log) = idx - 1
          /\ \A i \in 1..Len(log) : log[i].result \in HookSetupResult
    /\ pc = "prompt" => idx <= Len(BindingOrder)
    /\ pc = "done" =>
          /\ Len(log) = Len(BindingOrder)
          /\ \A i \in 1..Len(log) : log[i].result \in HookSetupResult
          /\ OutcomeCount("Added") + OutcomeCount("Skipped")
                + OutcomeCount("AlreadyExists") = Len(BindingOrder)

\* a completed run in which all three outcomes occur
C28_Witness ==
    /\ pc = "done"
    /\ OutcomeCount("Added") > 0
    /\ OutcomeCount("Skipped") > 0
    /\ OutcomeCount("AlreadyExists") > 0

----------------------------------------------------------------------------
\* group g has no `matcher` that is a string, and its `hooks` is exactly one
\* entry {type "command", command target}
MatcherlessHook(g, target) ==
    /\ g.matcher.k # "string"
    /\ g.hooks.k = "array"
    /\ Len(g.hooks.a) = 1
    /\ g.hooks.a[1].type = [k |-> "string", s |-> S_command]
    /\ g.hooks.a[1].command = [k |-> "string", s |-> target]

\* value v is a list holding such a group
HasMatcherlessHook(v, target) ==
    /\ v.k = "array"
    /\ \E i \in 1..Len(v.a) : MatcherlessHook(v.a[i], target)

\* C29: an event whose list holds a group without a string `matcher` and with
\* the single entry {type "command", command target} is reported
\* AlreadyExists without a prompt, for all flags; its list is left as it was,
\* in memory and in the file of a completed run, so no `matcher` is written
\* into the group.
C29_MissingMatcherCountsAsExact ==
    \A l \in Entries :
        HasMatcherlessHook(l.before, TargetOf(l.event)) =>
            /\ l.result = "AlreadyExists"
            /\ l.action = "None"
            /\ l.asked = 0
            /\ After(l.event) = l.before
            /\ (pc = "done" /\ file.st = "json" /\ file.doc.hooks.k = "object") =>
                   /\ Get(file.doc.hooks.m, l.event) = l.before
                   /\ HasMatcherlessHook(Get(file.doc.hooks.m, l.event),
                                         TargetOf(l.event))

\* a completed run that wrote the file and met a group whose `matcher` is
\* absent
C29_Witness ==
    /\ pc = "done"
    /\ writes > 0
    /\ \E l \in Entries :
          /\ l.before.k = "array"
          /\ \E i \in 1..Len(l.before.a) :
                /\ l.before.a[i].matcher.k = "absent"
                /\ MatcherlessHook(l.before.a[i], TargetOf(l.event))
          /\ l.result = "AlreadyExists"

\* the same with a `matcher` that is a number
C29_NumberMatcher ==
    /\ pc = "done"
    /\ \E l \in Entries :
          /\ l.before.k = "array"
          /\ \E i \in 1..Len(l.before.a) :
                /\ l.before.a[i].matcher.k = "number"
                /\ MatcherlessHook(l.before.a[i], TargetOf(l.event))
          /\ l.result = "AlreadyExists"

====
